---- MODULE Spec2Model ----
(***************************************************************************)
(* Nasdaq 100 Analysis: the dashboard page (src/unnamed/part_000), the     *)
(* stock detail page (src/js/stock-detail.js) and the chart helpers both   *)
(* pages use (src/js/charts.js).                                           *)
(*                                                                         *)
(* JavaScript values are records [t, n, s]: t names the type, n holds a    *)
(* number and s the UTF-16 code units of a string.  Strings of the data    *)
(* are non-empty words of letters, so a string compared with a number      *)
(* converts to NaN.                                                        *)
(***************************************************************************)
EXTENDS Integers, Sequences, FiniteSets, TLC

\* ------------------------------------------------------------------------
\* JavaScript values
\* ------------------------------------------------------------------------
Null == [t |-> "null", n |-> 0, s |-> << >>]

Num(k) == [t |-> "num", n |-> k, s |-> << >>]

Str(w) == [t |-> "str", n |-> 0, s |-> w]

PosInfinity == [t |-> "inf", n |-> 1, s |-> << >>]

NegInfinity == [t |-> "inf", n |-> -1, s |-> << >>]

\* The value of a property the record does not have
Undefined == [t |-> "undef", n |-> 0, s |-> << >>]

\* v >= k for a number k: null converts to 0, undefined to NaN
JsGreaterEq(v, k) ==
    IF v.t = "num" THEN v.n >= k
    ELSE IF v.t = "null" THEN 0 >= k
    ELSE FALSE

\* v <= k for a number k: null converts to 0, undefined to NaN
JsLessEq(v, k) ==
    IF v.t = "num" THEN v.n <= k
    ELSE IF v.t = "null" THEN 0 <= k
    ELSE FALSE

\* v == null
LooselyNull(v) == v.t \in {"null", "undef"}

\* String.prototype.toLowerCase on one code unit: 'A'..'Z' are 65..90
LowerUnit(c) == IF c >= 65 /\ c <= 90 THEN c + 32 ELSE c

toLowerCase(w) == [i \in 1..Len(w) |-> LowerUnit(w[i])]

\* String.prototype.includes: some window of hay equals needle
includes(hay, needle) ==
    \E i \in 0..(Len(hay) - Len(needle)) :
        \A j \in 1..Len(needle) : hay[i + j] = needle[j]

\* < on two strings: code units compared left to right, a proper prefix is smaller
StrLess(a, b) ==
    \E i \in 1..(Len(b)) :
        /\ \A j \in 1..(i - 1) : j <= Len(a) /\ a[j] = b[j]
        /\ i - 1 <= Len(a)
        /\ (i > Len(a) \/ a[i] < b[i])

\* < on two numbers, the infinities included
NumLess(a, b) ==
    CASE a.t = "num" /\ b.t = "num" -> a.n < b.n
      [] a.t = "inf" /\ b.t = "inf" -> a.n < b.n
      [] a.t = "inf" -> a.n < 0
      [] OTHER -> b.n > 0

\* The abstract relational comparison a < b of applyFilters' comparator:
\* two strings compare as strings; a string against a number converts to
\* NaN and every comparison with NaN is false.
JsLess(a, b) ==
    CASE a.t = "str" /\ b.t = "str" -> StrLess(a.s, b.s)
      [] a.t = "str" \/ b.t = "str" -> FALSE
      [] OTHER -> NumLess(a, b)

\* ------------------------------------------------------------------------
\* applyFilters: the filter and the sort
\* ------------------------------------------------------------------------

\* The sort key of one record as the comparator prepares it
SortKey(rec, field, dir) ==
    LET v == rec[field]
        lowered == IF v.t = "str" THEN Str(toLowerCase(v.s)) ELSE v
    IN  IF lowered.t = "null"
        THEN (IF dir = "asc" THEN PosInfinity ELSE NegInfinity)
        ELSE lowered

\* Mutant of compare: the descending branch tests the wrong way round
compare_flipped(a, b, field, dir) ==
    LET va == SortKey(a, field, dir)
        vb == SortKey(b, field, dir)
    IN  IF JsLess(vb, va) THEN 1 ELSE -1

\* The comparator handed to filtered.sort: never 0
compare(a, b, field, dir) ==
    LET va == SortKey(a, field, dir)
        vb == SortKey(b, field, dir)
    IN  IF dir = "asc"
        THEN (IF JsLess(vb, va) THEN 1 ELSE -1)
        ELSE (IF JsLess(va, vb) THEN 1 ELSE -1)

\* arr with the element at index from moved to index to (to <= from)
MoveTo(arr, from, to) ==
    [i \in 1..Len(arr) |->
        IF i < to \/ i > from THEN arr[i]
        ELSE IF i = to THEN arr[from]
        ELSE arr[i - 1]]

Reverse(arr, n) ==
    [i \in 1..Len(arr) |-> IF i <= n THEN arr[n + 1 - i] ELSE arr[i]]

\* Insertion sort, the small-array path of a merge-sort engine: the element
\* at i moves left past every neighbour x with comparefn(x, item) > 0
RECURSIVE InsertionSlot(_, _, _, _, _)
InsertionSlot(arr, i, j, field, dir) ==
    IF j < 1 THEN 1
    ELSE IF compare(arr[j], arr[i], field, dir) <= 0 THEN j + 1
    ELSE InsertionSlot(arr, i, j - 1, field, dir)

RECURSIVE InsertionSort(_, _, _, _)
InsertionSort(arr, i, field, dir) ==
    IF i > Len(arr) THEN arr
    ELSE InsertionSort(MoveTo(arr, i, InsertionSlot(arr, i, i - 1, field, dir)),
                       i + 1, field, dir)

\* TimSort engine on a short array (one run): the leading run is counted,
\* reversed when it descends, and the rest is inserted by binary search.
RECURSIVE RunLength(_, _, _, _, _)
RunLength(arr, idx, descending, field, dir) ==
    IF idx > Len(arr) THEN idx - 1
    ELSE LET order == compare(arr[idx], arr[idx - 1], field, dir)
         IN  IF (descending /\ order >= 0) \/ (~descending /\ order < 0)
             THEN idx - 1
             ELSE RunLength(arr, idx + 1, descending, field, dir)

RECURSIVE BinarySlot(_, _, _, _, _, _)
BinarySlot(arr, pivot, left, right, field, dir) ==
    IF left >= right THEN left
    ELSE LET mid == left + ((right - left) \div 2)
         IN  IF compare(arr[pivot], arr[mid], field, dir) < 0
             THEN BinarySlot(arr, pivot, left, mid, field, dir)
             ELSE BinarySlot(arr, pivot, mid + 1, right, field, dir)

RECURSIVE BinaryInsertionSort(_, _, _, _)
BinaryInsertionSort(arr, start, field, dir) ==
    IF start > Len(arr) THEN arr
    ELSE BinaryInsertionSort(
             MoveTo(arr, start, BinarySlot(arr, start, 1, start, field, dir)),
             start + 1, field, dir)

TimSort(arr, field, dir) ==
    IF Len(arr) < 2 THEN arr
    ELSE LET descending == compare(arr[2], arr[1], field, dir) < 0
             run == RunLength(arr, 3, descending, field, dir)
             made == IF descending THEN Reverse(arr, run) ELSE arr
         IN  BinaryInsertionSort(made, run + 1, field, dir)

\* The engines a build of the page can run on
Engines == {"timsort", "insertion"}

\* Array.prototype.sort with the comparator of applyFilters
sort(arr, field, dir, engine) ==
    IF engine = "timsort" THEN TimSort(arr, field, dir)
    ELSE InsertionSort(arr, 2, field, dir)

\* Mutant of matchesSearch: the search text is not lower-cased
matchesSearch_cased(rec, search) ==
    \/ includes(toLowerCase(rec.symbol.s), search)
    \/ includes(toLowerCase(IF rec.name.t = "str" THEN rec.name.s ELSE << >>), search)

\* The search predicate; search is the raw text of the input box
matchesSearch(rec, search) ==
    LET needle == toLowerCase(search)
    IN  \/ includes(toLowerCase(rec.symbol.s), needle)
        \/ includes(toLowerCase(IF rec.name.t = "str" THEN rec.name.s ELSE << >>),
                    needle)

\* The three filters, each skipped when its control is empty
filterStocks(stocks, c) ==
    LET bySearch == IF c.search # << >>
                    THEN SelectSeq(stocks, LAMBDA r : matchesSearch(r, c.search))
                    ELSE stocks
        bySector == IF c.sector # ""
                    THEN SelectSeq(bySearch, LAMBDA r : r.sector = c.sector)
                    ELSE bySearch
    IN  IF c.signal # ""
        THEN SelectSeq(bySector, LAMBDA r : r.macdSignal = c.signal)
        ELSE bySector

\* The rows applyFilters hands to renderStockTable
filteredRows(stocks, c, engine) ==
    sort(filterStocks(stocks, c), c.sortBy[1], c.sortBy[2], engine)

\* ------------------------------------------------------------------------
\* Data the pages are checked on
\* ------------------------------------------------------------------------

\* Longest stocks list of a summary the dashboard loads
MaxStocks == 2

\* Longest stocks list the filter and the sort are checked on
MaxFilterStocks == 3

\* Calls of applyFilters on one page (the call of init included)
MaxRenders == 3

\* Stock summary records: symbols AA, BB, AB, C; names "Ba", none, "ab", "A";
\* an absent sector or signal is "", an absent name or ytdReturn is Null
StockPool ==
    << [symbol |-> Str(<<65, 65>>), name |-> Str(<<66, 97>>), sector |-> "Tech",
        macdSignal |-> "bullish", ytdReturn |-> Num(20)],
       [symbol |-> Str(<<66, 66>>), name |-> Null, sector |-> "Health",
        macdSignal |-> "bearish", ytdReturn |-> Num(-10)],
       [symbol |-> Str(<<65, 66>>), name |-> Str(<<97, 98>>), sector |-> "Tech",
        macdSignal |-> "bearish", ytdReturn |-> Num(20)],
       [symbol |-> Str(<<67>>), name |-> Str(<<65>>), sector |-> "",
        macdSignal |-> "", ytdReturn |-> Null] >>

Range(seq) == {seq[i] : i \in 1..Len(seq)}

\* Lists of at most k records of the first p pool records, no symbol twice
StockLists(p, k) ==
    UNION {{l \in [1..n -> {StockPool[i] : i \in 1..p}] :
               \A i, j \in 1..n : i # j => l[i] # l[j]} : n \in 0..k}

Symbols == {StockPool[i].symbol.s : i \in 1..Len(StockPool)}

\* Texts of the search box: "", "a", "B", "ab"
Searches == {<< >>, <<97>>, <<66>>, <<97, 98>>}

\* What the events of the dashboard run set the controls to: the search
\* text "a", a sector of the heatmap, a signal, another sort option
EventSearches == {<< >>, <<97>>}

EventSectors == {"Tech"}

EventSignals == {"bearish"}

EventSortOptions == {<<"ytdReturn", "desc">>, <<"name", "asc">>}

Sectors == {"Tech", "Health"}

Signals == {"bullish", "bearish"}

\* sortBy.split('-') of the options of the sort select
SortOptions ==
    {<<"ytdReturn", "desc">>, <<"ytdReturn", "asc">>,
     <<"name", "asc">>, <<"name", "desc">>}

\* The controls as the page markup starts them
DefaultControls ==
    [search |-> << >>, sector |-> "", signal |-> "",
     sortBy |-> <<"ytdReturn", "desc">>]

NoSummary == [loaded |-> FALSE, stocks |-> << >>, sectorStats |-> FALSE,
              rankings |-> FALSE]

\* Summary documents: marketOverview and stocks always there, sectorStats
\* and rankings optional
Summaries ==
    {[loaded |-> TRUE, stocks |-> l, sectorStats |-> o, rankings |-> o] :
        l \in StockLists(3, MaxStocks), o \in BOOLEAN}

NoDetail == [loaded |-> FALSE, indicators |-> {}]

\* Detail documents: metrics, technicals and priceHistory always there; the
\* indicators object is absent, or holds any of these series
IndicatorKeys == {"dates", "ma5", "ma20", "ma50", "rsi", "macd", "bollinger"}

DetailDocuments ==
    {[loaded |-> TRUE, indicators |-> {"absent"}]}
    \cup {[loaded |-> TRUE, indicators |-> ks] : ks \in SUBSET IndicatorKeys}

\* Values of the symbol query parameter: none, ?symbol= and ?symbol=AA
SymbolParams == {Null, Str(<< >>), Str(<<65, 65>>)}

\* ------------------------------------------------------------------------
\* State
\* ------------------------------------------------------------------------
VARIABLES
    pc,             \* dashboard init: "load", "summary", "awaitAll", "ready",
                    \* "failed", or "threw" once init rejected with a TypeError
    summaryData,    \* let summaryData
    summaryFetches, \* fetches of data/summary.json issued
    fetches,        \* per stock of the summary: the state of its detail fetch
    allStocks,      \* let allStocks: the detail documents loaded
    body,           \* "page", or "error" once document.body.innerHTML is replaced
    sections,       \* containers of the dashboard written so far
    listeners,      \* the four filter listeners are registered
    controls,       \* values of search-input, sector-filter, signal-filter, sort-by
    tableRows,      \* records whose rows are in stock-table-body
    renders,        \* times stock-table-body was written
    pending,        \* requestAnimationFrame callbacks not yet run: their stocks
    sparklineCharts,\* const sparklineCharts: handles in push order
    mounts,         \* chart instance attached to spark-<symbol> of the table, 0 if none
    created,        \* chart handles created so far: 1..created
    disposed,       \* handles dispose() was called on
    doubleDisposed, \* dispose() was called on a handle already disposed
    dpc,            \* detail init: "load", "fetching", "done", "threw"
    symbol,         \* the symbol query parameter: Null, Str(<<>>) or a symbol
    detailFetches,  \* fetches of data/stocks/<symbol>.json issued by the detail page
    detailData,     \* const data of the detail init, NoDetail before it is loaded
    detailBody,     \* "page" or "message"
    drawn,          \* containers of the detail page written so far
    absent,         \* container ids the markup of the dashboard lacks
    rsi,            \* the rsi of one record, as the table and the card get it
    rsiCell,        \* the RSI cell renderStockTable made of it, or NoCell
    rsiCard         \* the RSI card renderMetricCards made of it, or NoCard

dashVars == <<pc, summaryData, summaryFetches, fetches, allStocks, body, sections,
              listeners, controls, tableRows, renders, pending, sparklineCharts,
              mounts, created, disposed, doubleDisposed>>

detailVars == <<dpc, symbol, detailFetches, detailData, detailBody, drawn>>

rsiVars == <<rsi, rsiCell, rsiCard>>

vars == <<dashVars, detailVars, absent, rsiVars>>

NoMounts == [s \in Symbols |-> 0]

DashInit ==
    /\ pc = "load"
    /\ summaryData = NoSummary
    /\ summaryFetches = 0
    /\ fetches = << >>
    /\ allStocks = << >>
    /\ body = "page"
    /\ sections = {}
    /\ listeners = FALSE
    /\ controls = DefaultControls
    /\ tableRows = << >>
    /\ renders = 0
    /\ pending = << >>
    /\ sparklineCharts = << >>
    /\ mounts = NoMounts
    /\ created = 0
    /\ disposed = {}
    /\ doubleDisposed = FALSE

\* The detail page is not open
DetailIdle ==
    /\ dpc = "load"
    /\ symbol = Null
    /\ detailFetches = 0
    /\ detailData = NoDetail
    /\ detailBody = "page"
    /\ drawn = {}

\* The markup has every container the scripts look up
MarkupComplete == absent = {}

NoCell == [class |-> "", text |-> ""]

NoCard == [color |-> "", label |-> ""]

\* No RSI cell or card has been rendered
RsiIdle == rsi = Undefined /\ rsiCell = NoCell /\ rsiCard = NoCard

Init == DashInit /\ DetailIdle /\ MarkupComplete /\ RsiIdle

\* ------------------------------------------------------------------------
\* Dashboard
\* ------------------------------------------------------------------------

\* init is called when the script loads: loadSummary issues its one fetch
DashStart ==
    /\ pc = "load"
    /\ pc' = "summary"
    /\ summaryFetches' = summaryFetches + 1
    /\ UNCHANGED <<summaryData, fetches, allStocks, body, sections, listeners,
                   controls, tableRows, renders, pending, sparklineCharts, mounts,
                   created, disposed, doubleDisposed, detailVars, absent, rsiVars>>

\* loadSummary resolves with the document: init writes the header and
\* loadAllStockData issues one fetch per stock; a fetch may never settle
SummaryLoaded ==
    /\ pc = "summary"
    /\ \E doc \in Summaries :
          /\ summaryData' = doc
          /\ fetches' \in [1..Len(doc.stocks) -> {"pending", "hung"}]
    /\ sections' = sections \cup {"header"}
    /\ pc' = "awaitAll"
    /\ UNCHANGED <<summaryFetches, allStocks, body, listeners, controls, tableRows,
                   renders, pending, sparklineCharts, mounts, created, disposed,
                   doubleDisposed, detailVars, absent, rsiVars>>

\* Mutant of SummaryFailed: init does not return after the error message
SummaryFailed_goesOn ==
    /\ pc = "summary"
    /\ body' = "error"
    /\ pc' = "failed"
    /\ listeners' = TRUE
    /\ UNCHANGED <<summaryData, summaryFetches, fetches, allStocks, sections,
                   controls, tableRows, renders, pending, sparklineCharts, mounts,
                   created, disposed, doubleDisposed, detailVars, absent, rsiVars>>

\* the fetch or resp.json() of the summary rejects: loadSummary returns
\* null and init replaces the body and returns
SummaryFailed ==
    /\ pc = "summary"
    /\ body' = "error"
    /\ pc' = "failed"
    /\ UNCHANGED <<summaryData, summaryFetches, fetches, allStocks, sections,
                   listeners, controls, tableRows, renders, pending,
                   sparklineCharts, mounts, created, disposed, doubleDisposed,
                   detailVars, absent, rsiVars>>

\* one per-symbol fetch settles: a document with or without priceHistory,
\* or a rejection that the callback of map catches
StockFetchSettles ==
    /\ pc = "awaitAll"
    /\ \E i \in 1..Len(fetches) :
          /\ fetches[i] = "pending"
          /\ \E outcome \in {"doc", "docNoHistory", "failed"} :
                fetches' = [fetches EXCEPT ![i] = outcome]
    /\ UNCHANGED <<pc, summaryData, summaryFetches, allStocks, body, sections,
                   listeners, controls, tableRows, renders, pending,
                   sparklineCharts, mounts, created, disposed, doubleDisposed,
                   detailVars, absent, rsiVars>>

Settled(f) == \A i \in 1..Len(f) : f[i] \in {"doc", "docNoHistory", "failed"}

RECURSIVE DocsFrom(_, _, _)
DocsFrom(stocks, f, i) ==
    IF i > Len(stocks) THEN << >>
    ELSE (IF f[i] = "failed" THEN << >>
          ELSE << [symbol |-> stocks[i].symbol.s,
                   priceHistory |-> (f[i] = "doc")] >>)
         \o DocsFrom(stocks, f, i + 1)

\* Mutant of loadAllStockData: one rejection rejects the whole batch
loadAllStockData_allOrNothing(stocks, f) ==
    IF \E i \in 1..Len(f) : f[i] = "failed" THEN << >>
    ELSE DocsFrom(stocks, f, 1)

\* What loadAllStockData returns once every fetch has settled:
\* (await Promise.all(promises)).filter(Boolean)
loadAllStockData(stocks, f) == DocsFrom(stocks, f, 1)

\* Mutant of disposeCharts: the registry is emptied without dispose()
disposeCharts_forgotten(registry, gone) == gone

\* sparklineCharts.forEach(c => c.dispose()): the handles disposed so far
disposeCharts(registry, gone) == gone \cup Range(registry)

\* some dispose() of that loop hits a handle that is already disposed
DisposesTwice(registry, gone) ==
    \/ \E i \in 1..Len(registry) : registry[i] \in gone
    \/ \E i, j \in 1..Len(registry) : i # j /\ registry[i] = registry[j]

\* Mutant of stocksAfterSort: filtered is summaryData.stocks itself, so
\* the sort reorders it whenever no filter made a new array
stocksAfterSort_inPlace(stocks, c, engine) ==
    IF c.search = << >> /\ c.sector = "" /\ c.signal = ""
    THEN sort(stocks, c.sortBy[1], c.sortBy[2], engine)
    ELSE stocks

\* summaryData.stocks after applyFilters' filters and sort: they work on
\* the copy [...summaryData.stocks]
stocksAfterSort(stocks, c, engine) == stocks

\* applyFilters reads the value of a control that is not there: a TypeError
\* before anything is done
controlsThrow(missing) == "sector-filter" \in missing

\* renderStockTable writes innerHTML of a tbody that is not there: a
\* TypeError after the charts were disposed
tableThrows(missing) == "stock-table-body" \in missing

\* applyFilters with the controls at c
applyFilters(c, engine) ==
    IF ~summaryData.loaded \/ controlsThrow(absent)
    THEN UNCHANGED <<summaryData, tableRows, renders, pending, sparklineCharts,
                     mounts, disposed, doubleDisposed>>
    ELSE LET rows == filteredRows(summaryData.stocks, c, engine)
         IN  /\ summaryData' =
                    [summaryData EXCEPT
                        !.stocks = stocksAfterSort(summaryData.stocks, c, engine)]
             /\ disposed' = disposeCharts(sparklineCharts, disposed)
             /\ doubleDisposed' =
                    (doubleDisposed \/ DisposesTwice(sparklineCharts, disposed))
             /\ sparklineCharts' = << >>
             /\ IF tableThrows(absent)
                THEN UNCHANGED <<tableRows, renders, mounts, pending>>
                ELSE /\ tableRows' = rows
                     /\ renders' = renders + 1
                     /\ mounts' = NoMounts
                     /\ pending' = Append(pending, rows)

\* The renderers init calls between loadAllStockData and applyFilters, in
\* call order, each with the container it writes
renderSteps(summary) ==
    << [section |-> "overview", container |-> "overview-cards"] >>
    \o (IF summary.sectorStats
        THEN << [section |-> "heatmap", container |-> "sector-heatmap"],
                [section |-> "sectorOptions", container |-> "sector-filter"] >>
        ELSE << >>)
    \o (IF summary.rankings
        THEN << [section |-> "top-gainers", container |-> "top-gainers"],
                [section |-> "top-losers", container |-> "top-losers"] >>
        ELSE << >>)

\* The containers init writes between loadAllStockData and applyFilters
renderSections(summary) ==
    {renderSteps(summary)[i].section : i \in 1..Len(renderSteps(summary))}

\* The first renderer whose container is not in the document: it throws a
\* TypeError on container.innerHTML or select.appendChild; Len + 1 if none
firstThrow(steps, missing) ==
    IF \E i \in 1..Len(steps) : steps[i].container \in missing
    THEN CHOOSE i \in 1..Len(steps) :
             /\ steps[i].container \in missing
             /\ \A j \in 1..(i - 1) : steps[j].container \notin missing
    ELSE Len(steps) + 1

\* Promise.all resolves: init renders the sections, calls applyFilters and
\* registers the listeners, unless a renderer or applyFilters throws
InitContinues ==
    /\ pc = "awaitAll"
    /\ Settled(fetches)
    /\ allStocks' = loadAllStockData(summaryData.stocks, fetches)
    /\ LET steps == renderSteps(summaryData)
           stop == firstThrow(steps, absent)
       IN  /\ sections' = sections \cup {steps[i].section : i \in 1..(stop - 1)}
           /\ IF stop <= Len(steps)
              THEN /\ pc' = "threw"
                   /\ UNCHANGED <<summaryData, tableRows, renders, pending,
                                  sparklineCharts, mounts, disposed,
                                  doubleDisposed, listeners>>
              ELSE /\ \E engine \in Engines : applyFilters(controls, engine)
                   /\ IF controlsThrow(absent) \/ tableThrows(absent)
                      THEN pc' = "threw" /\ UNCHANGED listeners
                      ELSE pc' = "ready" /\ listeners' = TRUE
    /\ UNCHANGED <<summaryFetches, fetches, body, controls, created,
                   detailVars, absent, rsiVars>>

\* an input or change event of one control: its value changed, applyFilters runs
ControlChanges ==
    /\ listeners
    /\ renders < MaxRenders
    /\ \/ \E v \in EventSearches \ {controls.search} :
             controls' = [controls EXCEPT !.search = v]
       \/ \E v \in ((IF "sectorOptions" \in sections THEN EventSectors ELSE {}) \cup {""})
                   \ {controls.sector} :
             controls' = [controls EXCEPT !.sector = v]
       \/ \E v \in (EventSignals \cup {""}) \ {controls.signal} :
             controls' = [controls EXCEPT !.signal = v]
       \/ \E v \in EventSortOptions \ {controls.sortBy} :
             controls' = [controls EXCEPT !.sortBy = v]
    /\ \E engine \in Engines : applyFilters(controls', engine)
    /\ UNCHANGED <<pc, summaryFetches, fetches, allStocks, body, sections,
                   listeners, created, detailVars, absent, rsiVars>>

HasHistory(docs, sym) ==
    \E i \in 1..Len(docs) :
        /\ docs[i].symbol = sym
        /\ \A j \in 1..(i - 1) : docs[j].symbol # sym
        /\ docs[i].priceHistory

\* The forEach of one deferred callback over its stocks: rows whose element
\* is in the document and whose document has priceHistory get a chart from
\* echarts.init, which hands back the instance already on the element
\* (reuse) or makes a new one, and the handle is pushed on sparklineCharts
RECURSIVE drawSparklines(_, _, _, _, _)
drawSparklines(syms, i, shown, reuse, st) ==
    IF i > Len(syms) THEN st
    ELSE IF syms[i] \notin shown \/ ~HasHistory(allStocks, syms[i])
    THEN drawSparklines(syms, i + 1, shown, reuse, st)
    ELSE IF reuse /\ st.mounts[syms[i]] # 0
    THEN drawSparklines(syms, i + 1, shown, reuse,
             [st EXCEPT !.registry = Append(st.registry, st.mounts[syms[i]])])
    ELSE drawSparklines(syms, i + 1, shown, reuse,
             [registry |-> Append(st.registry, st.created + 1),
              mounts |-> [st.mounts EXCEPT ![syms[i]] = st.created + 1],
              created |-> st.created + 1])

RECURSIVE RunCallbacks(_, _, _, _)
RunCallbacks(cbs, shown, reuse, st) ==
    IF cbs = << >> THEN st
    ELSE RunCallbacks(Tail(cbs), shown, reuse,
             drawSparklines([k \in 1..Len(Head(cbs)) |-> Head(cbs)[k].symbol.s],
                            1, shown, reuse, st))

\* an animation frame: every callback requested since the last frame runs,
\* in the order of the requests, against the table as it is now
AnimationFrame ==
    /\ pending # << >>
    /\ \E reuse \in BOOLEAN :
          LET st == RunCallbacks(pending,
                        {tableRows[k].symbol.s : k \in 1..Len(tableRows)}, reuse,
                        [registry |-> sparklineCharts, mounts |-> mounts,
                         created |-> created])
          IN  /\ sparklineCharts' = st.registry
              /\ mounts' = st.mounts
              /\ created' = st.created
    /\ pending' = << >>
    /\ UNCHANGED <<pc, summaryData, summaryFetches, fetches, allStocks, body,
                   sections, listeners, controls, tableRows, renders, disposed,
                   doubleDisposed, detailVars, absent, rsiVars>>

Next ==
    \/ DashStart
    \/ SummaryLoaded
    \/ SummaryFailed
    \/ StockFetchSettles
    \/ InitContinues
    \/ ControlChanges
    \/ AnimationFrame

Spec == Init /\ [][Next]_vars

\* Handles created and not disposed
Live == (1..created) \ disposed

\* init and the page's event loop keep going: a fetch that is pending (not
\* hung) settles, a resolved promise resumes init, a requested frame comes
FairSpec ==
    /\ Spec
    /\ WF_vars(DashStart)
    /\ WF_vars(SummaryLoaded \/ SummaryFailed)
    /\ WF_vars(StockFetchSettles)
    /\ WF_vars(InitContinues)
    /\ WF_vars(AnimationFrame)

\* ------------------------------------------------------------------------
\* Properties of the dashboard
\* ------------------------------------------------------------------------

RowsHaveHistory ==
    \A k \in 1..Len(tableRows) : HasHistory(allStocks, tableRows[k].symbol.s)

\* C1: once every deferred callback has run, the live sparkline handles are
\* exactly one per row of the current table, and no handle was disposed
\* twice.  Stated for the tables whose rows all have a detail document with
\* priceHistory, the rows renderStockTable draws a sparkline for.
C1_LiveHandlesEqualRows ==
    (pc = "ready" /\ pending = << >> /\ RowsHaveHistory)
        => /\ Cardinality(Live) = Len(tableRows)
           /\ Len(sparklineCharts) = Len(tableRows)
           /\ ~doubleDisposed

\* C2: whenever applyFilters writes the table, every handle ever pushed on
\* sparklineCharts has been disposed and sparklineCharts is empty.
C2_DisposedBeforeRender ==
    [][renders' # renders =>
          (sparklineCharts' = << >> /\ (1..created') \subseteq disposed')]_vars

\* a table written again after charts of an earlier table were registered
C2_Witness ==
    /\ renders >= 2
    /\ created > 0
    /\ pending # << >>
    /\ sparklineCharts = << >>
    /\ (1..created) \subseteq disposed

\* C6: once the summary is loaded, the overview cards, the heatmap and the
\* performer lists are eventually rendered, whatever the per-symbol fetches do.
C6_SectionsRenderedAfterSummary ==
    summaryData.loaded ~> (renderSections(summaryData) \subseteq sections)

\* C7: there is one fetch per stock of the summary and, whatever subset of
\* them fails, allStocks holds exactly the documents of the others, init goes
\* on, and the row of a failed symbol is in the table whenever it passes the
\* filters, without a chart.
C7_FailuresAreIndependent ==
    pc = "ready" =>
        /\ Len(fetches) = Len(summaryData.stocks)
        /\ Len(allStocks) =
               Cardinality({i \in 1..Len(fetches) : fetches[i] # "failed"})
        /\ {allStocks[k].symbol : k \in 1..Len(allStocks)} =
               {summaryData.stocks[i].symbol.s :
                   i \in {j \in 1..Len(fetches) : fetches[j] # "failed"}}
        /\ \A i \in 1..Len(fetches) :
               fetches[i] = "failed" =>
                   /\ mounts[summaryData.stocks[i].symbol.s] = 0
                   /\ (summaryData.stocks[i] \in
                           Range(filterStocks(summaryData.stocks, controls))
                        => summaryData.stocks[i] \in Range(tableRows))

\* one fetch failed and one succeeded: both rows shown, one chart drawn
C7_Witness ==
    /\ pc = "ready"
    /\ \E i, j \in 1..Len(fetches) :
          /\ fetches[i] = "failed"
          /\ fetches[j] = "doc"
          /\ summaryData.stocks[i] \in Range(tableRows)
          /\ mounts[summaryData.stocks[i].symbol.s] = 0
          /\ mounts[summaryData.stocks[j].symbol.s] # 0

\* C8: when the summary load fails there is one fetch of it and no other,
\* the body is the error message, and the page does nothing more: no
\* section, no table, no chart, no listener.
C8_SummaryFailureIsFatal ==
    pc = "failed" =>
        /\ summaryData = NoSummary
        /\ summaryFetches = 1
        /\ body = "error"
        /\ fetches = << >>
        /\ allStocks = << >>
        /\ sections = {}
        /\ renders = 0
        /\ tableRows = << >>
        /\ pending = << >>
        /\ created = 0
        /\ ~listeners
        /\ ~ENABLED Next

C8_Witness == pc = "failed" /\ body = "error"

\* ------------------------------------------------------------------------
\* The dashboard on a page whose markup lacks some containers
\* ------------------------------------------------------------------------

\* The ids of the containers the dashboard's renderers write to
DashContainers ==
    {"overview-cards", "sector-heatmap", "sector-filter", "top-gainers",
     "top-losers", "stock-table-body"}

MarkupInit ==
    DashInit /\ DetailIdle /\ RsiIdle /\ absent \in SUBSET DashContainers

MarkupSpec == MarkupInit /\ [][Next]_vars

\* C11: a renderer whose container is absent does nothing and raises no
\* error: init never stops on a TypeError, and when it is through, the
\* listeners are registered and every section whose container is there has
\* been rendered.
C11_AbsentContainerIsNoOp ==
    /\ pc # "threw"
    /\ pc = "ready" =>
          /\ listeners
          /\ \A i \in 1..Len(renderSteps(summaryData)) :
                 renderSteps(summaryData)[i].container \notin absent
                     => renderSteps(summaryData)[i].section \in sections

\* C12: once the summary is loaded no step changes it, and once init has
\* assigned allStocks no step changes that: applyFilters, however often it
\* runs, leaves the stocks of the summary in their number, order and records.
C12_LoadedDataIsNeverMutated ==
    [][/\ summaryData.loaded => summaryData' = summaryData
       /\ pc = "ready" => allStocks' = allStocks]_vars

\* applyFilters has run at least twice and shows every stock of the summary
\* in another order than the summary's, with documents loaded
C12_Witness ==
    /\ pc = "ready"
    /\ renders >= 2
    /\ allStocks # << >>
    /\ Len(tableRows) = Len(summaryData.stocks)
    /\ Range(tableRows) = Range(summaryData.stocks)
    /\ tableRows # summaryData.stocks

\* C13: in every state no mount of the current table has more than one live
\* chart handle, and sparklineCharts has no more entries than the table has
\* rows, however many applyFilters calls precede an animation frame.
C13_OneHandlePerMount ==
    /\ Cardinality(Live) <= Cardinality({s \in Symbols : mounts[s] # 0})
    /\ Len(sparklineCharts) <= Len(tableRows)

\* ------------------------------------------------------------------------
\* The filter and the sort on the larger data
\* ------------------------------------------------------------------------

AllControls ==
    [search : Searches, sector : Sectors \cup {""}, signal : Signals \cup {""},
     sortBy : SortOptions]

\* init waiting on Promise.all, every per-symbol fetch having failed, on a
\* summary of up to MaxFilterStocks records of the whole pool, the controls
\* holding any values: init's call of applyFilters reads them
FilterInit ==
    /\ pc = "awaitAll"
    /\ \E l \in StockLists(Len(StockPool), MaxFilterStocks) :
          /\ summaryData = [loaded |-> TRUE, stocks |-> l, sectorStats |-> TRUE,
                            rankings |-> TRUE]
          /\ fetches = [i \in 1..Len(l) |-> "failed"]
    /\ summaryFetches = 1
    /\ allStocks = << >>
    /\ body = "page"
    /\ sections = {"header"}
    /\ listeners = FALSE
    /\ controls \in AllControls
    /\ tableRows = << >>
    /\ renders = 0
    /\ pending = << >>
    /\ sparklineCharts = << >>
    /\ mounts = NoMounts
    /\ created = 0
    /\ disposed = {}
    /\ doubleDisposed = FALSE
    /\ DetailIdle
    /\ MarkupComplete
    /\ RsiIdle

FilterNext == InitContinues \/ AnimationFrame

FilterSpec == FilterInit /\ [][FilterNext]_vars

\* the record passes the three tests of the controls
Passes(r, c) ==
    /\ \/ c.search = << >>
       \/ includes(toLowerCase(r.symbol.s), toLowerCase(c.search))
       \/ (r.name.t = "str" /\ includes(toLowerCase(r.name.s), toLowerCase(c.search)))
    /\ (c.sector = "" \/ r.sector = c.sector)
    /\ (c.signal = "" \/ r.macdSignal = c.signal)

\* C3: a record of the summary is in the table iff it passes the search, the
\* sector and the signal test; the table holds each such record once and
\* nothing else.
C3_FilterIsConjunctive ==
    pc = "ready" =>
        /\ \A r \in Range(summaryData.stocks) :
               r \in Range(tableRows) <=> Passes(r, controls)
        /\ Range(tableRows) \subseteq Range(summaryData.stocks)
        /\ Cardinality(Range(tableRows)) = Len(tableRows)

\* all three criteria set, an upper-case search, one record kept, one dropped
C3_Witness ==
    /\ pc = "ready"
    /\ controls.search = <<66>>
    /\ controls.sector # ""
    /\ controls.signal # ""
    /\ tableRows # << >>
    /\ Len(tableRows) < Len(summaryData.stocks)

\* C4: whatever the sort field and the direction, no record without a value
\* of the field stands before a record with one.
C4_NullsSortLast ==
    pc = "ready" =>
        \A i, j \in 1..Len(tableRows) :
            (i < j /\ tableRows[i][controls.sortBy[1]].t = "null")
                => tableRows[j][controls.sortBy[1]].t = "null"

\* a ytdReturn at least as large as another, an absent one being the smallest
YtdAtLeast(a, b) ==
    \/ b.ytdReturn.t = "null"
    \/ (a.ytdReturn.t = "num" /\ a.ytdReturn.n >= b.ytdReturn.n)

\* C5: under ytdReturn-desc the table is in non-increasing order of
\* ytdReturn, so its first row has the largest ytdReturn of the filtered
\* records, ties included.
C5_YtdDescIsOrdered ==
    (pc = "ready" /\ controls.sortBy = <<"ytdReturn", "desc">>) =>
        /\ \A i, j \in 1..Len(tableRows) :
               i < j => YtdAtLeast(tableRows[i], tableRows[j])
        /\ \A r \in Range(filterStocks(summaryData.stocks, controls)) :
               YtdAtLeast(tableRows[1], r)

\* three rows under ytdReturn-desc: two tie on the key, one is smaller, and
\* the summary had them in another order
C5_Witness ==
    /\ pc = "ready"
    /\ controls.sortBy = <<"ytdReturn", "desc">>
    /\ Len(tableRows) = 3
    /\ tableRows[1].ytdReturn = tableRows[2].ytdReturn
    /\ tableRows[3].ytdReturn # tableRows[1].ytdReturn
    /\ tableRows # filterStocks(summaryData.stocks, controls)

\* ------------------------------------------------------------------------
\* Detail page
\* ------------------------------------------------------------------------

DetailInit ==
    /\ dpc = "load"
    /\ symbol \in SymbolParams
    /\ detailFetches = 0
    /\ detailData = NoDetail
    /\ detailBody = "page"
    /\ drawn = {}
    /\ DashInit
    /\ MarkupComplete
    /\ RsiIdle

\* !symbol of init
NoSymbol(param) == param.t = "null" \/ param.s = << >>

\* Mutant of DetailStart: the parameter is not tested
DetailStart_unchecked ==
    /\ dpc = "load"
    /\ detailFetches' = detailFetches + 1
    /\ dpc' = "fetching"
    /\ UNCHANGED <<symbol, detailData, detailBody, drawn, dashVars, absent, rsiVars>>

\* init up to its await: without a symbol the body becomes the message and
\* init returns, else loadStockData issues the fetch
DetailStart ==
    /\ dpc = "load"
    /\ IF NoSymbol(symbol)
       THEN /\ detailBody' = "message"
            /\ dpc' = "done"
            /\ UNCHANGED detailFetches
       ELSE /\ detailFetches' = detailFetches + 1
            /\ dpc' = "fetching"
            /\ UNCHANGED detailBody
    /\ UNCHANGED <<symbol, detailData, drawn, dashVars, absent, rsiVars>>

\* the fetch or resp.json() rejects: loadStockData returns null
DetailFailed ==
    /\ dpc = "fetching"
    /\ detailBody' = "message"
    /\ dpc' = "done"
    /\ UNCHANGED <<symbol, detailFetches, detailData, drawn, dashVars, absent, rsiVars>>

Has(data, key) == key \in data.indicators

\* drawCandlestickChart reads data.indicators[ma.key]: a TypeError when
\* there is no indicators object
candlestickThrows(data) == Has(data, "absent")

\* The three guarded charts of init: each is drawn when its series is there
chartsDrawn(data) ==
    (IF Has(data, "rsi") THEN {"rsi-chart"} ELSE {})
    \cup (IF Has(data, "macd") THEN {"macd-chart"} ELSE {})
    \cup (IF Has(data, "bollinger") THEN {"bollinger-chart"} ELSE {})

\* The moving averages drawCandlestickChart overlays
overlays(data) == data.indicators \cap {"ma5", "ma20", "ma50"}

\* loadStockData resolves with the document: init writes the header and the
\* metric cards, draws the charts and writes the key stats, unless
\* drawCandlestickChart throws
DetailLoaded ==
    /\ dpc = "fetching"
    /\ \E data \in DetailDocuments :
          /\ detailData' = data
          /\ IF candlestickThrows(data)
             THEN /\ drawn' = {"header", "metric-cards"}
                  /\ dpc' = "threw"
             ELSE /\ drawn' = {"header", "metric-cards", "candlestick-chart"}
                              \cup overlays(data) \cup chartsDrawn(data)
                              \cup {"key-stats"}
                  /\ dpc' = "done"
    /\ UNCHANGED <<symbol, detailFetches, detailBody, dashVars, absent, rsiVars>>

DetailNext == DetailStart \/ DetailFailed \/ DetailLoaded

DetailSpec == DetailInit /\ [][DetailNext]_vars

\* C9: without a symbol no fetch is issued; without a symbol or without a
\* document the body is the message, nothing of the page is rendered and
\* init has returned normally.
C9_DetailFailsGracefully ==
    /\ NoSymbol(symbol) => detailFetches = 0
    /\ (dpc # "load" /\ NoSymbol(symbol)) => dpc = "done"
    /\ (dpc \in {"done", "threw"} /\ ~detailData.loaded)
           => (dpc = "done" /\ detailBody = "message" /\ drawn = {})
    /\ detailBody = "message" => ~detailData.loaded

\* the fetch of ?symbol=AA failed and the message is shown
C9_Witness ==
    /\ dpc = "done"
    /\ ~NoSymbol(symbol)
    /\ detailFetches = 1
    /\ ~detailData.loaded
    /\ detailBody = "message"

\* the page came up without a symbol and the message is shown
C9_WitnessNoSymbol ==
    /\ dpc = "done"
    /\ symbol = Null
    /\ detailBody = "message"

\* C10: for every loaded document each of the RSI, MACD and Bollinger charts
\* is drawn iff its series is in the indicators, and a missing series or a
\* missing indicators object raises no error and keeps no later section,
\* the key stats included, from being rendered.
C10_MissingIndicatorsAreSkipped ==
    detailData.loaded =>
        /\ dpc = "done"
        /\ "rsi-chart" \in drawn <=> Has(detailData, "rsi")
        /\ "macd-chart" \in drawn <=> Has(detailData, "macd")
        /\ "bollinger-chart" \in drawn <=> Has(detailData, "bollinger")
        /\ "key-stats" \in drawn

\* ------------------------------------------------------------------------
\* The RSI of one record in the table cell and in the metric card
\* ------------------------------------------------------------------------

\* The largest RSI of the records
MaxRsi == 100

\* What rsi can be in a record of the JSON: a number, null, or not there
RsiValues == {Num(k) : k \in 0..MaxRsi} \cup {Null, Undefined}

\* renderStockTable's class of the RSI cell
rsiClass(v) ==
    IF JsGreaterEq(v, 70) THEN "rsi-overbought"
    ELSE IF JsLessEq(v, 30) THEN "rsi-oversold"
    ELSE "rsi-neutral"

\* renderStockTable's text of the RSI cell: toFixed(1) of a number, else '-'
rsiText(v) == IF ~LooselyNull(v) THEN "toFixed" ELSE "-"

\* charts.js rsiColor, by the name of the colour in COLORS
rsiColor(v) ==
    IF LooselyNull(v) THEN "text"
    ELSE IF JsGreaterEq(v, 70) THEN "loss"
    ELSE IF JsLessEq(v, 30) THEN "gain"
    ELSE "textLight"

\* charts.js rsiLabel
rsiLabel(v) ==
    IF LooselyNull(v) THEN "N/A"
    ELSE IF JsGreaterEq(v, 70) THEN "Overbought"
    ELSE IF JsLessEq(v, 30) THEN "Oversold"
    ELSE "Neutral"

RsiInit ==
    /\ DashInit
    /\ DetailIdle
    /\ MarkupComplete
    /\ rsi \in RsiValues
    /\ rsiCell = NoCell
    /\ rsiCard = NoCard

\* renderStockTable makes the row of the record
RenderRsiCell ==
    /\ rsiCell' = [class |-> rsiClass(rsi), text |-> rsiText(rsi)]
    /\ UNCHANGED <<dashVars, detailVars, absent, rsi, rsiCard>>

\* renderMetricCards makes the RSI card of the record
RenderRsiCard ==
    /\ rsiCard' = [color |-> rsiColor(rsi), label |-> rsiLabel(rsi)]
    /\ UNCHANGED <<dashVars, detailVars, absent, rsi, rsiCell>>

RsiNext == RenderRsiCell \/ RenderRsiCard

RsiSpec == RsiInit /\ [][RsiNext]_vars

\* C14: the RSI cell of the table is overbought iff rsi is a number >= 70 and
\* oversold iff rsi is a number <= 30, a cell showing '-' is neither, and the
\* cell is overbought (oversold) exactly when the card of the same rsi is
\* labelled Overbought (Oversold) and coloured so.
C14_RsiClassAgreesWithLabel ==
    /\ rsiCell # NoCell =>
          /\ rsiCell.class = "rsi-overbought" <=> (rsi.t = "num" /\ rsi.n >= 70)
          /\ rsiCell.class = "rsi-oversold" <=> (rsi.t = "num" /\ rsi.n <= 30)
          /\ rsiCell.text = "-" =>
                 rsiCell.class \notin {"rsi-overbought", "rsi-oversold"}
    /\ (rsiCell # NoCell /\ rsiCard # NoCard) =>
          /\ rsiCell.class = "rsi-overbought" <=>
                 (rsiCard.label = "Overbought" /\ rsiCard.color = "loss")
          /\ rsiCell.class = "rsi-oversold" <=>
                 (rsiCard.label = "Oversold" /\ rsiCard.color = "gain")

====
